---- MODULE Spec2Model ----
(***************************************************************************)
(* Tab strip management of the document viewer (src/Tabs.cpp).             *)
(*                                                                         *)
(* One MainWindow with its TabsCtrl.  A WindowTab is identified by its     *)
(* address, a number of TabIds; NoTab is the null pointer.  Indexes into   *)
(* the tab list and the selection history are 0-based as in the code, and  *)
(* -1 means "none" / "not found".                                          *)
(***************************************************************************)
EXTENDS Integers, Sequences, FiniteSets

\* Number of WindowTab objects that can be alive at once.
MaxTabs == 3

\* nullptr as a WindowTab* / DocController*.
NoTab == 0

TabIds == 1..MaxTabs

VARIABLES
    tabs,                 \* win->Tabs(): userData of the tabs of win->tabsCtrl, in order
    selected,             \* win->tabsCtrl->GetSelected()
    currentTabTemp,       \* win->currentTabTemp, returned by win->CurrentTab()
    ctrl,                 \* win->ctrl
    tabSelectionHistory,  \* *win->tabSelectionHistory
    tabsVisible,          \* win->tabsVisible
    tabsInTitlebar,       \* win->tabsInTitlebar
    tabCtrl,              \* tab->ctrl of every WindowTab address
    tabInfo,              \* the TabInfo (text, isPinned) the control holds for a tab
    useTabs,              \* gGlobalPrefs->useTabs
    pc,                   \* position of the handler that is running, "idle" between handlers
    removedTab,           \* the local tab of a RemoveTab that is running
    newTab,               \* the tab returned by the last CreateNewTab
    handler,              \* the handler that ran last and its arguments
    calls,                \* the functions the last handler called, in order
    relayouts,            \* RelayoutWindow calls made by ShowTabBar in the last handler
    lostSelection         \* live tabs that lost the selection, least recent first

vars == <<tabs, selected, currentTabTemp, ctrl, tabSelectionHistory, tabsVisible,
          tabsInTitlebar, tabCtrl, tabInfo, useTabs, pc, removedTab, newTab,
          handler, calls, relayouts,
          lostSelection>>

----------------------------------------------------------------------------
(* Vec<T> *)

Range(vec) == {vec[i] : i \in 1..Len(vec)}

\* Vec::Find: position of the first occurrence, -1 when absent.
Find(vec, el) ==
    IF el \in Range(vec)
    THEN (CHOOSE i \in 1..Len(vec) : vec[i] = el /\ \A j \in 1..(i - 1) : vec[j] # el) - 1
    ELSE -1

\* Vec::RemoveAt
RemoveAt(vec, idx) ==
    [i \in 1..(Len(vec) - 1) |-> IF i <= idx THEN vec[i] ELSE vec[i + 1]]

\* Vec::Remove: removes the first occurrence, if any.
VecRemove(vec, el) ==
    IF Find(vec, el) = -1 THEN vec ELSE RemoveAt(vec, Find(vec, el))

\* Vec::InsertAt
InsertAt(vec, idx, el) ==
    [i \in 1..(Len(vec) + 1) |->
        IF i <= idx THEN vec[i] ELSE IF i = idx + 1 THEN el ELSE vec[i - 1]]

Last(vec) == vec[Len(vec)]

\* a % b of C++ on int: the remainder has the sign of a
CMod(a, b) == IF a >= 0 THEN a % b ELSE -((-a) % b)

\* the vector without its last element (what Vec::Pop leaves)
Front(vec) == SubSeq(vec, 1, Len(vec) - 1)

----------------------------------------------------------------------------
(* The window as a record, so that the functions compose as in the code.  *)

Win ==
    [tabs |-> tabs, selected |-> selected, currentTabTemp |-> currentTabTemp,
     ctrl |-> ctrl, tabSelectionHistory |-> tabSelectionHistory,
     tabsVisible |-> tabsVisible, tabsInTitlebar |-> tabsInTitlebar,
     tabCtrl |-> tabCtrl, tabInfo |-> tabInfo, newTab |-> newTab, calls |-> <<>>, relayouts |-> 0]

Call(w, name) == [w EXCEPT !.calls = Append(@, name)]

TabsCount(w) == Len(w.tabs)

\* win->Tabs()[idx] / win->Tabs().at(idx)
TabAt(w, idx) == IF idx >= 0 /\ idx < Len(w.tabs) THEN w.tabs[idx + 1] ELSE NoTab

\* MainWindow::CurrentTab
CurrentTab(w) == w.currentTabTemp

\* TabsCtrl::GetSelected
GetSelected(w) == w.selected

\* TabsCtrl::SetSelected: the control shows tab idx as selected; the result of the
\* call (the previously selected index) is the selected index of the window before.
SetSelected(w, idx) ==
    Call([w EXCEPT !.selected = IF idx >= 0 /\ idx < Len(w.tabs) THEN idx ELSE -1],
         "SetSelected")

\* no TabInfo: the address holds no tab of the control
NoInfo == [text |-> "", isPinned |-> FALSE]

\* TabsCtrl::InsertTab: inserts at idx; a selected tab at or after idx moves right.
InsertTab(w, idx, tab, info) ==
    [w EXCEPT !.tabs = InsertAt(@, idx, tab),
              !.tabInfo[tab] = info,
              !.selected = IF @ >= idx THEN @ + 1 ELSE @]

\* TabsCtrl::RemoveTab: removes the tab at idx; a selected tab after idx moves left,
\* and removing the selected tab leaves no tab selected.
TabsCtrlRemoveTab(w, idx) ==
    [w EXCEPT !.tabs = RemoveAt(@, idx),
              !.tabInfo[w.tabs[idx + 1]] = NoInfo,
              !.selected = IF idx < @ THEN @ - 1 ELSE IF idx = @ THEN -1 ELSE @]

\* LoadModelIntoTab: the tab becomes the window's current tab, with its controller.
LoadModelIntoTab(w, tab) ==
    IF tab = NoTab THEN w
    ELSE Call([w EXCEPT !.currentTabTemp = tab, !.ctrl = w.tabCtrl[tab]],
              "LoadModelIntoTab")

\* new WindowTab(win, filePath): the lowest free address; no controller yet.
NewWindowTab(w) == CHOOSE t \in TabIds \ Range(w.tabs) :
                        \A u \in TabIds \ Range(w.tabs) : t <= u

----------------------------------------------------------------------------
(* src/Tabs.cpp *)

\* ShowTabBar without its early return: every call lays the window out again.
ShowTabBar_AlwaysRelayout(w, show) ==
    [w EXCEPT !.tabsVisible = show, !.relayouts = @ + 1]

ShowTabBar(w, show) ==
    IF show = w.tabsVisible THEN w
    ELSE [w EXCEPT !.tabsVisible = show, !.relayouts = @ + 1]

UpdateTabWidth(w) ==
    LET nTabs == TabsCount(w)
        showSingleTab == useTabs \/ w.tabsInTitlebar
        showTabs == (nTabs > 1) \/ (showSingleTab /\ (nTabs > 0))
    IN  IF ~showTabs THEN ShowTabBar(Call(w, "UpdateTabWidth"), FALSE)
        ELSE ShowTabBar(Call(w, "UpdateTabWidth"), TRUE)

\* RemoveTab without the Remove from the selection history.
RemoveTab_KeepsHistory(w, idx) ==
    LET tab == TabAt(w, idx)
        w1 == IF tab = NoTab THEN Call(w, "RemoveTab")
              ELSE TabsCtrlRemoveTab(Call(w, "RemoveTab"), idx)
        w3 == IF tab = CurrentTab(w1)
              THEN [w1 EXCEPT !.ctrl = NoTab, !.currentTabTemp = NoTab]
              ELSE w1
        w4 == IF tab = NoTab THEN w3 ELSE [w3 EXCEPT !.tabCtrl[tab] = NoTab]
    IN  UpdateTabWidth(w4)

\* RemoveTab that leaves win->ctrl and win->currentTabTemp alone.
RemoveTab_KeepsCurrent(w, idx) ==
    LET tab == TabAt(w, idx)
        w1 == IF tab = NoTab THEN Call(w, "RemoveTab")
              ELSE TabsCtrlRemoveTab(Call(w, "RemoveTab"), idx)
        w2 == [w1 EXCEPT !.tabSelectionHistory = VecRemove(@, tab)]
        w4 == IF tab = NoTab THEN w2 ELSE [w2 EXCEPT !.tabCtrl[tab] = NoTab]
    IN  UpdateTabWidth(w4)

RemoveTab(w, idx) ==
    LET tab == TabAt(w, idx)
        w1 == IF tab = NoTab THEN Call(w, "RemoveTab")
              ELSE TabsCtrlRemoveTab(Call(w, "RemoveTab"), idx)
        w2 == [w1 EXCEPT !.tabSelectionHistory = VecRemove(@, tab)]
        w3 == IF tab = CurrentTab(w2)
              THEN [w2 EXCEPT !.ctrl = NoTab, !.currentTabTemp = NoTab]
              ELSE w2
        w4 == IF tab = NoTab THEN w3 ELSE [w3 EXCEPT !.tabCtrl[tab] = NoTab]
    IN  UpdateTabWidth(w4)

\* SaveCurrentWindowTab that appends without removing the earlier entry.
SaveCurrentWindowTab_NoRemove(winNull, w) ==
    IF winNull THEN w
    ELSE LET w0 == Call(w, "SaveCurrentWindowTab")
             current == GetSelected(w0)
             tab == CurrentTab(w0)
         IN  IF -1 = current THEN w0
             ELSE IF CurrentTab(w0) # TabAt(w0, current) THEN w0
             ELSE [w0 EXCEPT !.tabSelectionHistory = Append(@, tab)]

\* SaveCurrentWindowTab that keeps a tab already in the history where it is.
SaveCurrentWindowTab_NoReorder(winNull, w) ==
    IF winNull THEN w
    ELSE LET w0 == Call(w, "SaveCurrentWindowTab")
             current == GetSelected(w0)
             tab == CurrentTab(w0)
         IN  IF -1 = current THEN w0
             ELSE IF CurrentTab(w0) # TabAt(w0, current) THEN w0
             ELSE IF tab \in Range(w0.tabSelectionHistory) THEN w0
             ELSE [w0 EXCEPT !.tabSelectionHistory = Append(@, tab)]

SaveCurrentWindowTab(winNull, w) ==
    IF winNull THEN w
    ELSE LET w0 == Call(w, "SaveCurrentWindowTab")
             current == GetSelected(w0)
             tab == CurrentTab(w0)
         IN  IF -1 = current THEN w0
             ELSE IF CurrentTab(w0) # TabAt(w0, current) THEN w0
             ELSE [w0 EXCEPT !.tabSelectionHistory = Append(VecRemove(@, tab), tab)]

\* TabsSelect without the check for the tab that is selected already.
TabsSelect_NoSameCheck(w, tabIndex) ==
    LET w0 == Call(w, "TabsSelect")
        count == Len(w0.tabs)
        w1 == SaveCurrentWindowTab(FALSE, w0)
        w2 == SetSelected(w1, tabIndex)
        prevIdx == GetSelected(w1)
    IN  IF count < 2 \/ tabIndex < 0 \/ tabIndex >= count THEN w0
        ELSE IF prevIdx < 0 THEN w2
        ELSE LoadModelIntoTab(w2, TabAt(w0, tabIndex))

\* TabsSelect that selects the tab before it saves the outgoing one.
TabsSelect_SaveAfterSelect(w, tabIndex) ==
    LET w0 == Call(w, "TabsSelect")
        count == Len(w0.tabs)
        currIdx == GetSelected(w0)
        w1 == SetSelected(w0, tabIndex)
        w2 == SaveCurrentWindowTab(FALSE, w1)
        prevIdx == GetSelected(w0)
    IN  IF count < 2 \/ tabIndex < 0 \/ tabIndex >= count THEN w0
        ELSE IF tabIndex = currIdx THEN w0
        ELSE IF prevIdx < 0 THEN w2
        ELSE LoadModelIntoTab(w2, TabAt(w0, tabIndex))

TabsSelect(w, tabIndex) ==
    LET w0 == Call(w, "TabsSelect")
        count == Len(w0.tabs)
        currIdx == GetSelected(w0)
        w1 == SaveCurrentWindowTab(FALSE, w0)
        w2 == SetSelected(w1, tabIndex)
        prevIdx == GetSelected(w1)
    IN  IF count < 2 \/ tabIndex < 0 \/ tabIndex >= count THEN w0
        ELSE IF tabIndex = currIdx THEN w0
        ELSE IF prevIdx < 0 THEN w2
        ELSE LoadModelIntoTab(w2, TabAt(w0, tabIndex))

\* CreateNewTab without the idx++ after the about tab.
CreateNewTab_NoIdxIncrement(w) ==
    LET w0 == Call(w, "CreateNewTab")
        idx0 == TabsCount(w0)
        about == NewWindowTab(w0)
        w1 == IF useTabs /\ idx0 = 0
              THEN InsertTab(w0, idx0, about, [text |-> "Home", isPinned |-> TRUE])
              ELSE w0
        idx == idx0
        tab == NewWindowTab(w1)
        w2 == InsertTab(w1, idx, tab, [text |-> "title", isPinned |-> FALSE])
        w3 == SetSelected(w2, idx)
    IN  [UpdateTabWidth(w3) EXCEPT !.newTab = tab]

CreateNewTab(w) ==
    LET w0 == Call(w, "CreateNewTab")
        idx0 == TabsCount(w0)
        about == NewWindowTab(w0)
        w1 == IF useTabs /\ idx0 = 0
              THEN InsertTab(w0, idx0, about, [text |-> "Home", isPinned |-> TRUE])
              ELSE w0
        idx == IF useTabs /\ idx0 = 0 THEN idx0 + 1 ELSE idx0
        tab == NewWindowTab(w1)
        w2 == InsertTab(w1, idx, tab, [text |-> "title", isPinned |-> FALSE])
        w3 == SetSelected(w2, idx)
    IN  [UpdateTabWidth(w3) EXCEPT !.newTab = tab]

\* TabsOnCloseDoc that takes the oldest entry of the history instead of the newest.
TabsOnCloseDoc_PopFront(w) ==
    LET w0 == Call(w, "TabsOnCloseDoc")
        current == GetSelected(w0)
        w1 == RemoveTab(w0, current)
        hasHistory == Len(w1.tabSelectionHistory) > 0
        tab == IF hasHistory THEN Head(w1.tabSelectionHistory) ELSE TabAt(w1, 0)
        w2 == IF hasHistory THEN [w1 EXCEPT !.tabSelectionHistory = Tail(@)] ELSE w1
        toSelect == IF hasHistory THEN Find(w2.tabs, tab) ELSE 0
    IN  IF TabsCount(w0) = 0 THEN w0
        ELSE IF TabsCount(w1) > 0 THEN LoadModelIntoTab(SetSelected(w2, toSelect), tab)
        ELSE w1

TabsOnCloseDoc(w) ==
    LET w0 == Call(w, "TabsOnCloseDoc")
        current == GetSelected(w0)
        w1 == RemoveTab(w0, current)
        hasHistory == Len(w1.tabSelectionHistory) > 0
        tab == IF hasHistory THEN Last(w1.tabSelectionHistory) ELSE TabAt(w1, 0)
        w2 == IF hasHistory THEN [w1 EXCEPT !.tabSelectionHistory = Front(@)] ELSE w1
        toSelect == IF hasHistory THEN Find(w2.tabs, tab) ELSE 0
    IN  IF TabsCount(w0) = 0 THEN w0
        ELSE IF TabsCount(w1) > 0 THEN LoadModelIntoTab(SetSelected(w2, toSelect), tab)
        ELSE w1

\* The two CrashIf conditions of TabsOnChangedDoc, negated: what it takes for granted.
TabsOnChangedDocAsserts(w) ==
    LET tab == CurrentTab(w)
    IN  /\ (tab = NoTab) = (TabsCount(w) = 0)
        /\ tab # NoTab => Find(w.tabs, tab) = GetSelected(w)

TabsOnChangedDoc(w) == Call(w, "TabsOnChangedDoc")

\* CloseCurrentTab: closes the document of the current tab.
CloseCurrentTab(w) == TabsOnCloseDoc(Call(w, "CloseCurrentTab"))

WinTabClosedHandler(w, closedTabIdx) ==
    LET w0 == Call(w, "WinTabClosedHandler")
        current == GetSelected(w0)
    IN  IF closedTabIdx = current THEN CloseCurrentTab(w0)
        ELSE RemoveTab(w0, closedTabIdx)

\* TabsOnCloseWindow without the Reset of the selection history.
TabsOnCloseWindow_KeepsHistory(w) ==
    [Call(w, "TabsOnCloseWindow") EXCEPT
        !.tabs = <<>>, !.selected = -1, !.tabCtrl = [t \in TabIds |-> NoTab],
        !.tabInfo = [t \in TabIds |-> NoInfo],
        !.currentTabTemp = NoTab, !.ctrl = NoTab]

TabsOnCloseWindow(w) ==
    [Call(w, "TabsOnCloseWindow") EXCEPT
        !.tabs = <<>>, !.selected = -1, !.tabCtrl = [t \in TabIds |-> NoTab],
        !.tabInfo = [t \in TabIds |-> NoInfo],
        !.tabSelectionHistory = <<>>, !.currentTabTemp = NoTab, !.ctrl = NoTab]

\* TabsOnCtrlTab without "idx += count".
TabsOnCtrlTab_NoWrap(winNull, w, reverse) ==
    IF winNull THEN w
    ELSE LET w0 == Call(w, "TabsOnCtrlTab")
             count == TabsCount(w0)
             idx1 == GetSelected(w0) + 1
             idx2 == IF reverse THEN idx1 - 2 ELSE idx1
         IN  IF count < 2 THEN w0 ELSE TabsSelect(w0, CMod(idx2, count))

TabsOnCtrlTab(winNull, w, reverse) ==
    IF winNull THEN w
    ELSE LET w0 == Call(w, "TabsOnCtrlTab")
             count == TabsCount(w0)
             idx1 == GetSelected(w0) + 1
             idx2 == IF reverse THEN idx1 - 2 ELSE idx1
             idx3 == idx2 + count
         IN  IF count < 2 THEN w0 ELSE TabsSelect(w0, CMod(idx3, count))

\* onSelectionChanging, the control selecting tab idx, onSelectionChanged
SelectionChange(w, idx) ==
    LET w1 == SaveCurrentWindowTab(FALSE, Call(w, "onSelectionChanging"))
        w2 == Call(SetSelected(w1, idx), "onSelectionChanged")
    IN  LoadModelIntoTab(w2, TabAt(w2, GetSelected(w2)))

----------------------------------------------------------------------------
(* Bookkeeping of which tab lost the selection, from the control's own state *)

SelectedTab(ts, sel) == IF sel >= 0 /\ sel < Len(ts) THEN ts[sel + 1] ELSE NoTab

Live(seq, ts) == SelectSeq(seq, LAMBDA t : t \in Range(ts))

Without(seq, el) == SelectSeq(seq, LAMBDA t : t # el)

LostSelectionAfter(w) ==
    LET old == SelectedTab(tabs, selected)
        new == SelectedTab(w.tabs, w.selected)
        kept == Live(lostSelection, w.tabs)
    IN  IF old # NoTab /\ old # new /\ old \in Range(w.tabs)
        THEN Append(Without(kept, old), old)
        ELSE kept

\* the handler leaves the window as w
Commit(w, name, idx, winNull) ==
    /\ tabs' = w.tabs
    /\ selected' = w.selected
    /\ currentTabTemp' = w.currentTabTemp
    /\ ctrl' = w.ctrl
    /\ tabSelectionHistory' = w.tabSelectionHistory
    /\ tabsVisible' = w.tabsVisible
    /\ tabsInTitlebar' = w.tabsInTitlebar
    /\ tabCtrl' = w.tabCtrl
    /\ tabInfo' = w.tabInfo
    /\ newTab' = w.newTab
    /\ calls' = w.calls
    /\ relayouts' = w.relayouts
    /\ handler' = [name |-> name, idx |-> idx, winNull |-> winNull]
    /\ lostSelection' = LostSelectionAfter(w)
    /\ UNCHANGED useTabs

----------------------------------------------------------------------------
(* Handlers *)

Init ==
    /\ tabs = <<>>
    /\ selected = -1
    /\ currentTabTemp = NoTab
    /\ ctrl = NoTab
    /\ tabSelectionHistory = <<>>
    /\ tabsVisible = FALSE
    /\ tabsInTitlebar = FALSE
    /\ tabCtrl = [t \in TabIds |-> NoTab]
    /\ tabInfo = [t \in TabIds |-> NoInfo]
    /\ useTabs \in BOOLEAN
    /\ pc = "idle"
    /\ removedTab = NoTab
    /\ newTab = NoTab
    /\ handler = [name |-> "CreateTabbar", idx |-> -1, winNull |-> FALSE]
    /\ calls = <<>>
    /\ relayouts = 0
    /\ lostSelection = <<>>

\* A document is loaded into a new tab: the active tab is saved, then the tab is made.
LoadDocumentNewTab ==
    /\ pc = "idle"
    /\ Len(tabs) + (IF useTabs /\ Len(tabs) = 0 THEN 2 ELSE 1) <= MaxTabs
    /\ Commit(CreateNewTab(SaveCurrentWindowTab(FALSE, Call(Win, "LoadDocument"))),
              "LoadDocument", -1, FALSE)
    /\ pc' = "created"
    /\ UNCHANGED removedTab

\* ... and the load ends: the new tab gets its controller and is the current tab.
LoadDocumentFinish ==
    /\ pc = "created"
    /\ LET w1 == [Win EXCEPT !.tabCtrl[newTab] = newTab, !.newTab = newTab]
       IN  Commit([TabsOnChangedDoc(LoadModelIntoTab(w1, newTab))
                      EXCEPT !.newTab = NoTab],
                  "LoadDocumentFinish", -1, FALSE)
    /\ pc' = "idle"
    /\ UNCHANGED removedTab

DoSaveCurrentWindowTab ==
    /\ \E winNull \in BOOLEAN :
          Commit(SaveCurrentWindowTab(winNull, Win), "SaveCurrentWindowTab", -1, winNull)
    /\ UNCHANGED <<pc, removedTab>>

DoTabsSelect ==
    /\ pc = "idle"
    /\ \E tabIndex \in -1..MaxTabs :
          Commit(TabsSelect(Win, tabIndex), "TabsSelect", tabIndex, FALSE)
    /\ UNCHANGED <<pc, removedTab>>

DoTabsOnCtrlTab ==
    /\ pc = "idle"
    /\ \E winNull \in BOOLEAN, reverse \in BOOLEAN :
          Commit(TabsOnCtrlTab(winNull, Win, reverse), "TabsOnCtrlTab",
                 IF reverse THEN 1 ELSE 0, winNull)
    /\ UNCHANGED <<pc, removedTab>>

DoSelectionChange ==
    /\ pc = "idle"
    /\ \E idx \in 0..(Len(tabs) - 1) :
          /\ idx # selected
          /\ Commit(SelectionChange(Win, idx), "SelectionChange", idx, FALSE)
    /\ UNCHANGED <<pc, removedTab>>

DoWinTabClosedHandler ==
    /\ pc = "idle"
    /\ \E closedTabIdx \in 0..(Len(tabs) - 1) :
          Commit(WinTabClosedHandler(Win, closedTabIdx), "WinTabClosedHandler",
                 closedTabIdx, FALSE)
    /\ UNCHANGED <<pc, removedTab>>

DoTabsOnCloseDoc ==
    /\ pc = "idle"
    /\ Commit(TabsOnCloseDoc(Win), "TabsOnCloseDoc", -1, FALSE)
    /\ UNCHANGED <<pc, removedTab>>

DoTabsOnCloseWindow ==
    /\ pc = "idle"
    /\ Commit(TabsOnCloseWindow(Win), "TabsOnCloseWindow", -1, FALSE)
    /\ UNCHANGED <<pc, removedTab>>

SetTabsInTitlebar ==
    /\ pc = "idle"
    /\ \E inTitleBar \in BOOLEAN :
          Commit(IF inTitleBar = tabsInTitlebar THEN Win
                 ELSE [Win EXCEPT !.tabsInTitlebar = inTitleBar],
                 "SetTabsInTitlebar", IF inTitleBar THEN 1 ELSE 0, FALSE)
    /\ UNCHANGED <<pc, removedTab>>

Next ==
    \/ LoadDocumentNewTab
    \/ LoadDocumentFinish
    \/ DoSaveCurrentWindowTab
    \/ DoTabsSelect
    \/ DoTabsOnCtrlTab
    \/ DoSelectionChange
    \/ DoWinTabClosedHandler
    \/ DoTabsOnCloseDoc
    \/ DoTabsOnCloseWindow
    \/ SetTabsInTitlebar

Spec == Init /\ [][Next]_vars

----------------------------------------------------------------------------
(* TabsOnCloseDoc statement by statement.  The handlers run on the one UI   *)
(* thread: while one is between its statements (pc is neither "idle" nor    *)
(* "created") no other handler starts.                                       *)

\* the window inside a handler: the log of the handler goes on
WinInHandler == [Win EXCEPT !.calls = calls, !.relayouts = relayouts]

\* RemoveTab after win->tabsCtrl->RemoveTab(idx) has returned tab
RemoveTabRest(w, tab) ==
    LET w2 == [w EXCEPT !.tabSelectionHistory = VecRemove(@, tab)]
        w3 == IF tab = CurrentTab(w2)
              THEN [w2 EXCEPT !.ctrl = NoTab, !.currentTabTemp = NoTab]
              ELSE w2
        w4 == IF tab = NoTab THEN w3 ELSE [w3 EXCEPT !.tabCtrl[tab] = NoTab]
    IN  UpdateTabWidth(w4)

\* the end of TabsOnCloseDoc without the SetSelected of the tab it picked
TabsOnCloseDocSelect_NoSetSelected(w) ==
    LET hasHistory == Len(w.tabSelectionHistory) > 0
        tab == IF hasHistory THEN Last(w.tabSelectionHistory) ELSE TabAt(w, 0)
        w2 == IF hasHistory THEN [w EXCEPT !.tabSelectionHistory = Front(@)] ELSE w
    IN  IF TabsCount(w) > 0 THEN LoadModelIntoTab(w2, tab) ELSE w

\* TabsOnCloseDoc after RemoveTab has returned
TabsOnCloseDocSelect(w) ==
    LET hasHistory == Len(w.tabSelectionHistory) > 0
        tab == IF hasHistory THEN Last(w.tabSelectionHistory) ELSE TabAt(w, 0)
        w2 == IF hasHistory THEN [w EXCEPT !.tabSelectionHistory = Front(@)] ELSE w
        toSelect == IF hasHistory THEN Find(w2.tabs, tab) ELSE 0
    IN  IF TabsCount(w) > 0 THEN LoadModelIntoTab(SetSelected(w2, toSelect), tab)
        ELSE w

\* TabsOnCloseDoc up to and with win->tabsCtrl->RemoveTab(current) in RemoveTab
CloseDocRemoveFromCtrl ==
    /\ pc = "idle"
    /\ LET w0 == Call(Win, "TabsOnCloseDoc")
           tab == TabAt(w0, GetSelected(w0))
       IN  IF TabsCount(w0) = 0 \/ tab = NoTab
           THEN /\ Commit(w0, "TabsOnCloseDoc", -1, FALSE)
                /\ UNCHANGED <<pc, removedTab>>
           ELSE /\ Commit(TabsCtrlRemoveTab(Call(w0, "RemoveTab"), GetSelected(w0)),
                          "TabsOnCloseDoc", -1, FALSE)
                /\ pc' = "removing"
                /\ removedTab' = tab

\* ... the rest of RemoveTab
CloseDocRemoveRest ==
    /\ pc = "removing"
    /\ Commit(RemoveTabRest(WinInHandler, removedTab), "TabsOnCloseDoc", -1, FALSE)
    /\ pc' = "removed"
    /\ removedTab' = NoTab

\* ... and the selection of another tab
CloseDocSelect ==
    /\ pc = "removed"
    /\ Commit(TabsOnCloseDocSelect(WinInHandler), "TabsOnCloseDoc", -1, FALSE)
    /\ pc' = "idle"
    /\ UNCHANGED removedTab

NextSteps ==
    \/ LoadDocumentNewTab
    \/ LoadDocumentFinish
    \/ (pc \in {"idle", "created"} /\ DoSaveCurrentWindowTab)
    \/ DoTabsSelect
    \/ DoTabsOnCtrlTab
    \/ DoSelectionChange
    \/ DoWinTabClosedHandler
    \/ CloseDocRemoveFromCtrl
    \/ CloseDocRemoveRest
    \/ CloseDocSelect
    \/ DoTabsOnCloseWindow
    \/ SetTabsInTitlebar

SpecSteps == Init /\ [][NextSteps]_vars

TypeOK ==
    /\ tabs \in Seq(TabIds) /\ Len(tabs) <= MaxTabs
    /\ selected \in -1..(Len(tabs) - 1)
    /\ currentTabTemp \in TabIds \cup {NoTab}
    /\ pc \in {"idle", "created", "removing", "removed"}
----------------------------------------------------------------------------
(* Properties *)

Called(name) == name \in Range(calls)

Count(seq, el) == Cardinality({i \in 1..Len(seq) : seq[i] = el})

\* C1: TabsOnCtrlTab selects the next tab, or with reverse the previous one,
\* cyclically when the window has at least 2 tabs; with a null window or fewer
\* than 2 tabs the selected index and the selection history stay as they are.
C1_CtrlTabCyclic ==
    [][handler'.name = "TabsOnCtrlTab" =>
        IF ~handler'.winNull /\ Len(tabs) >= 2
        THEN /\ handler'.idx = 0 => selected' = (selected + 1) % Len(tabs)
             /\ handler'.idx = 1 => selected' = (selected - 1 + Len(tabs)) % Len(tabs)
             /\ tabs' = tabs
        ELSE /\ selected' = selected
             /\ tabSelectionHistory' = tabSelectionHistory]_vars

\* reverse Ctrl+Tab went from index 0 to the last of 3 tabs
C1_Witness ==
    /\ handler.name = "TabsOnCtrlTab" /\ handler.idx = 1 /\ ~handler.winNull
    /\ Len(tabs) = 3 /\ selected = 2
    /\ Called("LoadModelIntoTab")
    /\ Last(tabSelectionHistory) = tabs[1]

\* C2: TabsOnCloseDoc on a window with tabs removes exactly the selected tab; if
\* tabs remain, the tab popped from the end of the selection history, or the tab at
\* index 0 when the history is empty, is selected and loaded; with no tabs it
\* changes nothing.
C2_CloseDocSelectsFromHistory ==
    [][handler'.name = "TabsOnCloseDoc" =>
        IF Len(tabs) = 0
        THEN UNCHANGED <<tabs, selected, currentTabTemp, ctrl, tabSelectionHistory,
                         tabsVisible, tabCtrl, tabInfo>>
        ELSE /\ tabs' = RemoveAt(tabs, selected)
             /\ Len(tabs') = Len(tabs) - 1
             /\ Len(tabs') > 0 =>
                  LET history == Without(tabSelectionHistory, tabs[selected + 1])
                  IN  /\ history # <<>> =>
                            /\ SelectedTab(tabs', selected') = Last(history)
                            /\ tabSelectionHistory' = Front(history)
                      /\ history = <<>> => selected' = 0
                      /\ currentTabTemp' = SelectedTab(tabs', selected')
                      /\ currentTabTemp' # NoTab
                      /\ Called("LoadModelIntoTab")']_vars

\* a close that left 2 tabs and selected the second one, popped from the history
C2_Witness ==
    /\ handler.name = "TabsOnCloseDoc"
    /\ Len(tabs) = 2 /\ selected = 1 /\ currentTabTemp = tabs[2]
    /\ Called("LoadModelIntoTab")
    /\ tabSelectionHistory = <<tabs[1]>>

C4_CreateNewTabAppendsAndSelects ==
    [][Called("CreateNewTab")' =>
        /\ IF useTabs /\ Len(tabs) = 0
           THEN /\ Len(tabs') = 2
                /\ tabInfo'[tabs'[1]] = [text |-> "Home", isPinned |-> TRUE]
                /\ tabs'[2] = newTab'
           ELSE tabs' = Append(tabs, newTab')
        /\ newTab' \notin Range(tabs)
        /\ ~tabInfo'[newTab'].isPinned
        /\ Last(tabs') = newTab'
        /\ selected' = Len(tabs') - 1]_vars

\* the first document of a window with useTabs: Home and the document tab
C4_Witness ==
    /\ pc = "created" /\ Called("CreateNewTab") /\ useTabs
    /\ Len(tabs) = 2 /\ selected = 1 /\ newTab = tabs[2]
    /\ tabInfo[tabs[1]].isPinned

\* C5: TabsSelect does nothing to the selected index, the selection history and
\* the loaded model when the window has fewer than 2 tabs or tabIndex is negative,
\* not below the tab count, or the selected index.
C5_TabsSelectNoOp ==
    [][(/\ handler'.name = "TabsSelect"
        /\ \/ Len(tabs) < 2
           \/ handler'.idx < 0
           \/ handler'.idx >= Len(tabs)
           \/ handler'.idx = selected) =>
        UNCHANGED <<selected, tabSelectionHistory, currentTabTemp, ctrl>>]_vars

\* TabsSelect of the selected tab among 2 or more, which the history does not end with
C5_Witness ==
    /\ handler.name = "TabsSelect" /\ handler.idx = selected
    /\ Len(tabs) >= 2 /\ calls = <<"TabsSelect">>
    /\ tabSelectionHistory # <<>> /\ Last(tabSelectionHistory) # tabs[selected + 1]

\* C6: TabsSelect with 2 or more tabs and a valid tabIndex other than the selected
\* one saves the outgoing current tab (it ends the selection history), then
\* selects tabIndex, then loads the model of the tab at tabIndex.
C6_TabsSelectSavesThenLoads ==
    [][(/\ handler'.name = "TabsSelect"
        /\ Len(tabs) >= 2
        /\ handler'.idx >= 0 /\ handler'.idx < Len(tabs)
        /\ handler'.idx # selected) =>
        /\ calls' = <<"TabsSelect", "SaveCurrentWindowTab", "SetSelected",
                      "LoadModelIntoTab">>
        /\ Last(tabSelectionHistory') = currentTabTemp
        /\ currentTabTemp = tabs[selected + 1]
        /\ selected' = handler'.idx
        /\ currentTabTemp' = tabs[handler'.idx + 1]
        /\ ctrl' = tabCtrl[currentTabTemp']]_vars

\* TabsSelect went from the last of 3 tabs to the first
C6_Witness ==
    /\ handler.name = "TabsSelect" /\ handler.idx = 0 /\ selected = 0
    /\ Len(tabs) = 3 /\ currentTabTemp = tabs[1]
    /\ Last(tabSelectionHistory) = tabs[3]
    /\ Len(tabSelectionHistory) = 3

\* C7: SaveCurrentWindowTab with a selected index whose tab is the current tab
\* makes the current tab the last entry of the history, once, the other entries in
\* their order; with a null window, nothing selected or another current tab it
\* leaves the history as it is.
C7_SaveMovesCurrentToEnd ==
    [][(handler'.name = "SaveCurrentWindowTab" \/ Called("SaveCurrentWindowTab")') =>
        IF /\ ~handler'.winNull
           /\ selected # -1
           /\ currentTabTemp = SelectedTab(tabs, selected)
        THEN /\ Last(tabSelectionHistory') = currentTabTemp
             /\ Count(tabSelectionHistory', currentTabTemp) = 1
             /\ Without(tabSelectionHistory', currentTabTemp)
                  = Without(tabSelectionHistory, currentTabTemp)
        ELSE tabSelectionHistory' = tabSelectionHistory]_vars

\* a save of the current tab with 2 other tabs in the history
C7_Witness ==
    /\ handler.name = "SaveCurrentWindowTab" /\ ~handler.winNull
    /\ Len(tabSelectionHistory) = 3
    /\ selected = 0
    /\ Last(tabSelectionHistory) = tabs[1] /\ currentTabTemp = tabs[1]

\* C8 as claimed: the assertions of TabsOnChangedDoc hold in every reachable state.
C8_AssertsHoldEverywhere == TabsOnChangedDocAsserts(Win)

\* C8: the assertions of TabsOnChangedDoc (a current tab exactly when there are
\* tabs, and at the selected index) hold in every reachable state but those between
\* CreateNewTab and the end of the load that makes the new tab the current tab.
C8_AssertsHoldOutsideLoad == pc = "idle" => TabsOnChangedDocAsserts(Win)

\* a tab was closed and another tab, not at index 0, became the current tab
C8_Witness ==
    /\ pc = "idle" /\ Called("RemoveTab") /\ Called("LoadModelIntoTab")
    /\ Len(tabs) = 2 /\ selected = 1 /\ currentTabTemp = tabs[2]

\* C9: after TabsOnCloseWindow the window has no tabs, an empty selection history
\* and neither a controller nor a current tab.
C9_CloseWindowClearsAll ==
    handler.name = "TabsOnCloseWindow" =>
        /\ Len(tabs) = 0
        /\ tabSelectionHistory = <<>>
        /\ ctrl = NoTab
        /\ currentTabTemp = NoTab

\* a window closed while its tab bar was showing
C9_Witness ==
    /\ handler.name = "TabsOnCloseWindow"
    /\ tabs = <<>> /\ tabsVisible /\ tabsInTitlebar
    /\ tabSelectionHistory = <<>> /\ currentTabTemp = NoTab

\* C10: after UpdateTabWidth, so after each CreateNewTab and RemoveTab, the tab bar
\* is visible exactly when there are 2 or more tabs, or 1 or more with useTabs or
\* tabs in the title bar; ShowTabBar lays the window out again only when the
\* visibility changes.
C10_TabBarVisibility ==
    [][/\ (Called("CreateNewTab")' \/ Called("RemoveTab")') => Called("UpdateTabWidth")'
       /\ Called("UpdateTabWidth")' =>
            /\ tabsVisible' = (\/ Len(tabs') > 1
                               \/ (useTabs \/ tabsInTitlebar') /\ Len(tabs') > 0)
            /\ (relayouts' = 1) = (tabsVisible' # tabsVisible)
            /\ relayouts' \in {0, 1}]_vars

\* a single tab shown because the tabs are in the title bar
C10_Witness ==
    /\ Called("UpdateTabWidth") /\ relayouts = 1
    /\ Len(tabs) = 1 /\ tabsVisible /\ tabsInTitlebar /\ ~useTabs

\* C11: in every reachable state the selection history names only tabs of the
\* window's tab list: a tab removed by RemoveTab or TabsOnCloseWindow is not left in
\* it, so the tab TabsOnCloseDoc pops is found in the tab list and the index it
\* passes to SetSelected is never -1.
C11_HistoryOnlyLiveTabs ==
    /\ Range(tabSelectionHistory) \subseteq Range(tabs)
    /\ (Called("TabsOnCloseDoc") /\ Called("SetSelected")) =>
          /\ selected >= 0
          /\ currentTabTemp = tabs[selected + 1]

\* without useTabs every tab was selected when it was made, so of 3 tabs the 2 not
\* selected are in the history; one of them was closed and the other is still there
C11_Witness ==
    /\ ~useTabs /\ handler.name = "WinTabClosedHandler"
    /\ Called("RemoveTab") /\ ~Called("CloseCurrentTab")
    /\ Len(tabs) = 2 /\ selected = 1
    /\ tabSelectionHistory = <<tabs[1]>>

\* what a handler must not see: a removed tab still in the selection history, or a
\* selected index that is no index of the tab list
TabsAndHistoryInStep ==
    /\ Range(tabSelectionHistory) \subseteq Range(tabs)
    /\ selected \in (IF Len(tabs) = 0 THEN {-1} ELSE 0..(Len(tabs) - 1))

\* C13: the handlers run one after the other on the UI thread, each to its end, so
\* whenever a handler starts, the selection history names only tabs of the tab list
\* and the selected index is an index of the tab list (-1 with no tabs).
C13_HandlersSeeConsistentTabs ==
    pc \in {"idle", "created"} => TabsAndHistoryInStep

\* TabsOnCloseDoc has gone through its three steps and left 2 tabs
C13_Witness ==
    /\ pc = "idle" /\ handler.name = "TabsOnCloseDoc"
    /\ calls = <<"TabsOnCloseDoc", "RemoveTab", "UpdateTabWidth", "SetSelected",
                 "LoadModelIntoTab">>
    /\ Len(tabs) = 2 /\ selected = 1 /\ tabSelectionHistory = <<tabs[1]>>

\* inside RemoveTab the removed tab is still in the selection history
C13_InsideRemoveTab ==
    /\ pc = "removing"
    /\ removedTab \in Range(tabSelectionHistory) /\ removedTab \notin Range(tabs)

\* between RemoveTab and SetSelected no tab is selected though tabs remain
C13_InsideCloseDoc ==
    /\ pc = "removed" /\ Len(tabs) > 0 /\ selected = -1

====
